---- MODULE Spec2Model ----
(***************************************************************************)
(* Smart-Librarian: title resolution (tools.py), the semantic index        *)
(* (retriever.py) and the query orchestration (cli.py).                    *)
(*                                                                         *)
(* Text is modelled as a sequence of one-character strings so that strip,  *)
(* lower, substring search, join and the difflib similarity ratio are      *)
(* computed character by character, as the Python code computes them.      *)
(* A summary is an opaque TLA+ string ("" is the empty summary).           *)
(***************************************************************************)
EXTENDS Integers, Sequences, FiniteSets, TLC

\* ------------------------------------------------------------------ bounds
MaxQueryLen == 2
MaxCatalog == 2
MaxReplyLen == 3
MaxTitles == 2
MaxBooks == 3
MaxBatch == 2
MaxRuns == 2
MaxK == 3

\* ------------------------------------------------------------------ text
Alphabet == {"a", "A", "b", " "}

\* code point of a character: the order Python compares strings by
Ord(c) == CASE c = " " -> 32 [] c = "A" -> 65 [] c = "B" -> 66
            [] c = "a" -> 97 [] c = "b" -> 98

LowerChar(c) == CASE c = "A" -> "a" [] c = "B" -> "b" [] OTHER -> c

\* str.lower()
lower(s) == [i \in 1..Len(s) |-> LowerChar(s[i])]

IsSpace(c) == c = " "

RECURSIVE lstrip(_)
lstrip(s) == IF s = <<>> THEN s
             ELSE IF IsSpace(Head(s)) THEN lstrip(Tail(s)) ELSE s

RECURSIVE rstrip(_)
rstrip(s) == IF s = <<>> THEN s
             ELSE IF IsSpace(s[Len(s)]) THEN rstrip(SubSeq(s, 1, Len(s) - 1)) ELSE s

\* str.strip()
strip(s) == rstrip(lstrip(s))

\* Python's "x in y" on strings
Contains(y, x) ==
    \E i \in 0..(Len(y) - Len(x)) : \A t \in 1..Len(x) : y[i + t] = x[t]

\* Python's < on strings: lexicographic by code point, a proper prefix is smaller
RECURSIVE StrLess(_, _)
StrLess(x, y) ==
    IF y = <<>> THEN FALSE
    ELSE IF x = <<>> THEN TRUE
    ELSE IF Ord(Head(x)) # Ord(Head(y)) THEN Ord(Head(x)) < Ord(Head(y))
    ELSE StrLess(Tail(x), Tail(y))

Min(S) == CHOOSE x \in S : \A y \in S : x <= y
Max(S) == CHOOSE x \in S : \A y \in S : x >= y

\* all texts over alphabet A of length at most n
Texts(A, n) == UNION {[1..m -> A] : m \in 0..n}

\* ------------------------------------------------------------------ difflib
\* SequenceMatcher.find_longest_match(alo, ahi, blo, bhi) without junk: the
\* longest block a[i:i+k] == b[j:j+k], the one starting earliest in a and, among
\* those, earliest in b.  Indices are 0-based and half-open as in Python.
IsBlock(a, b, i, j, k) == \A t \in 1..k : a[i + t] = b[j + t]

find_longest_match(a, b, alo, ahi, blo, bhi) ==
    LET blocks == {<<i, j, k>> \in (alo..(ahi - 1)) \X (blo..(bhi - 1)) \X (1..Len(a)) :
                      /\ i + k <= ahi
                      /\ j + k <= bhi
                      /\ IsBlock(a, b, i, j, k)}
    IN IF blocks = {} THEN <<alo, blo, 0>>
       ELSE LET k == Max({m[3] : m \in blocks})
                i == Min({m[1] : m \in {x \in blocks : x[3] = k}})
                j == Min({m[2] : m \in {x \in blocks : x[3] = k /\ x[1] = i}})
            IN <<i, j, k>>

\* sum of the sizes of SequenceMatcher.get_matching_blocks(): the longest match,
\* then recursively the pieces to its left and to its right
RECURSIVE matches(_, _, _, _, _, _)
matches(a, b, alo, ahi, blo, bhi) ==
    LET m == find_longest_match(a, b, alo, ahi, blo, bhi)
        i == m[1]
        j == m[2]
        k == m[3]
    IN IF k = 0 THEN 0
       ELSE k
            + (IF alo < i /\ blo < j THEN matches(a, b, alo, i, blo, j) ELSE 0)
            + (IF i + k < ahi /\ j + k < bhi
               THEN matches(a, b, i + k, ahi, j + k, bhi) ELSE 0)

\* SequenceMatcher.ratio() = 2.0 * M / T, kept as the fraction <<2M, T>>;
\* two empty sequences have ratio 1.0
ratio(a, b) == IF Len(a) + Len(b) = 0 THEN <<1, 1>>
               ELSE <<2 * matches(a, b, 0, Len(a), 0, Len(b)), Len(a) + Len(b)>>

\* cutoff=0.6 of tools.match_title, as the fraction 6/10
CutoffNum == 6
CutoffDen == 10

AtLeastCutoff(r) == r[1] * CutoffDen >= CutoffNum * r[2]

\* (score1, x1) < (score2, x2) as Python compares the tuples in heapq.nlargest
ScoredLess(r1, x1, r2, x2) ==
    \/ r1[1] * r2[2] < r2[1] * r1[2]
    \/ r1[1] * r2[2] = r2[1] * r1[2] /\ StrLess(x1, x2)

\* difflib.get_close_matches(word, possibilities, n=1, cutoff=0.6): the
\* possibilities scoring at least the cutoff, the largest (score, text) first.
\* real_quick_ratio and quick_ratio are upper bounds of ratio and filter nothing
\* that ratio would keep.
get_close_matches(word, possibilities) ==
    LET close == {x \in {possibilities[n] : n \in 1..Len(possibilities)} :
                     AtLeastCutoff(ratio(x, word))}
    IN IF close = {} THEN <<>>
       ELSE <<CHOOSE x \in close :
                \A y \in close : ~ScoredLess(ratio(x, word), x, ratio(y, word), y)>>

\* ------------------------------------------------------------------ tools.py
\* _all_titles(): the stripped titles of the records that have a title
RECURSIVE _all_titles(_)
_all_titles(bs) ==
    IF bs = <<>> THEN <<>>
    ELSE IF Head(bs).title # <<>>
         THEN <<strip(Head(bs).title)>> \o _all_titles(Tail(bs))
         ELSE _all_titles(Tail(bs))

\* match_title(query): the closest title, or "" (the empty text)
match_title(bs, query) ==
    IF strip(query) = <<>> THEN <<>>
    ELSE LET best == get_close_matches(strip(query), _all_titles(bs))
         IN IF best # <<>> THEN best[1] ELSE <<>>

\* get_summary_by_title with "want in title" in place of "title == want"
get_summary_by_title_substring(bs, title) ==
    IF strip(title) = <<>> THEN ""
    ELSE LET want == lower(strip(title))
             hit == {n \in 1..Len(bs) : Contains(lower(strip(bs[n].title)), want)}
         IN IF hit = {} THEN "" ELSE bs[Min(hit)].summary

\* get_summary_by_title(title): the summary of the first record whose
\* stripped, lower-cased title equals the stripped, lower-cased argument, or ""
get_summary_by_title(bs, title) ==
    IF strip(title) = <<>> THEN ""
    ELSE LET want == lower(strip(title))
             hit == {n \in 1..Len(bs) : lower(strip(bs[n].title)) = want}
         IN IF hit = {} THEN "" ELSE bs[Min(hit)].summary

\* ------------------------------------------------------------------ cli.py
\* k=3 of the search_books call in handle_query
K == 3

\* message.content is None when the provider sends no text
NoneContent == <<"None">>

\* "... .message.content or ''"
ReplyText(content) == IF content = NoneContent THEN <<>> ELSE content

\* the choice with the reply itself taken as the title when no candidate occurs in it
PickChosen_trustsReply(ts, content) ==
    LET rep == ReplyText(content)
        found == {n \in 1..Len(ts) : Contains(lower(rep), lower(ts[n]))}
    IN IF found # {} THEN ts[Min(found)] ELSE strip(rep)

\* next((t for t in titles if t.lower() in reply.lower()), titles[0])
PickChosen(ts, content) ==
    LET rep == ReplyText(content)
        found == {n \in 1..Len(ts) : Contains(lower(rep), lower(ts[n]))}
    IN IF found # {} THEN ts[Min(found)] ELSE ts[1]

\* _pick_from_titles without its printing: "" for an empty list
_pick_from_titles(ts, content) == IF ts = <<>> THEN <<>> ELSE PickChosen(ts, content)

\* [c.get("title") for c in candidates if c.get("title")]
RECURSIVE CandidateTitles(_)
CandidateTitles(cands) ==
    IF cands = <<>> THEN <<>>
    ELSE IF Head(cands).title # <<>>
         THEN <<Head(cands).title>> \o CandidateTitles(Tail(cands))
         ELSE CandidateTitles(Tail(cands))

\* ------------------------------------------------------------------ retriever.py
Digits == <<"0", "1", "2", "3", "4", "5", "6", "7", "8", "9">>

\* str(idx) of a non-negative integer
RECURSIVE str(_)
str(n) == IF n < 10 THEN <<Digits[n + 1]>>
          ELSE str(n \div 10) \o <<Digits[(n % 10) + 1]>>

\* sep.join(xs)
RECURSIVE join(_, _)
join(sep, xs) == IF xs = <<>> THEN <<>>
                 ELSE IF Len(xs) = 1 THEN xs[1]
                 ELSE xs[1] \o sep \o join(sep, Tail(xs))

\* the "themes" metadata build_index writes: ", ".join(themes)
SerializeThemes(themes) == join(<<",", " ">>, themes)

\* ids, documents, metadatas of build_index (every modelled record has a title)
Ids(bs) == [i \in 1..Len(bs) |-> str(i - 1)]
Documents(bs) == [i \in 1..Len(bs) |-> bs[i].summary]
Metadatas(bs) ==
    [i \in 1..Len(bs) |-> [title |-> bs[i].title, themes |-> SerializeThemes(bs[i].themes)]]

\* the embedding provider: one vector per input text, in input order; the
\* vector of a text is named by the text
Emb(text) == [of |-> text]
EmbeddingsCreate(batch) == [i \in 1..Len(batch) |-> Emb(batch[i])]

\* texts[start:start + batch_size]
Batch(texts, st, bs) == SubSeq(texts, st + 1, Min({st + bs, Len(texts)}))

\* the vectors of a batch put in front of those collected so far
Collect_inFront(embs, data) == data \o embs

\* "for item in resp.data: embeddings.append(item.embedding)"
Collect(embs, data) == embs \o data

\* the entries build_index hands to collection.upsert
Entries(bs, vectors) ==
    [i \in 1..Len(bs) |-> [id |-> Ids(bs)[i],
                           document |-> Documents(bs)[i],
                           metadata |-> Metadatas(bs)[i],
                           embedding |-> vectors[i]]]

\* collection.add in place of upsert: every entry is appended
RECURSIVE upsert_appends(_, _)
upsert_appends(coll, es) ==
    IF es = <<>> THEN coll ELSE upsert_appends(Append(coll, Head(es)), Tail(es))

\* collection.upsert: an entry whose id is present is overwritten in place,
\* any other is added
RECURSIVE upsert(_, _)
upsert(coll, es) ==
    IF es = <<>> THEN coll
    ELSE LET e == Head(es)
             one == IF \E n \in 1..Len(coll) : coll[n].id = e.id
                    THEN [n \in 1..Len(coll) |-> IF coll[n].id = e.id THEN e ELSE coll[n]]
                    ELSE Append(coll, e)
         IN upsert(one, Tail(es))

\* x / q rounded to the nearest integer, a tie to the even one
RoundDiv(x, q) ==
    LET f == x \div q
        r == x % q
    IN IF 2 * r > q \/ (2 * r = q /\ f % 2 = 1) THEN f + 1 ELSE f

\* cosine_score_from_distance: distances are counted in 1/10000, scores in
\* 1/1000.  sim = 1 - d, norm = (sim + 1) / 2 clamped to [0, 1], round(norm, 3).
\* norm2 is 2 * norm, so that the halving and the rounding are one division.
\* (Python rounds the binary value, which differs from this on exact ties only;
\* the modelled distances have none.)
cosine_score_from_distance(d) ==
    LET sim == 10000 - d
        norm2 == sim + 10000
        clamped == IF norm2 < 0 THEN 0 ELSE IF norm2 > 20000 THEN 20000 ELSE norm2
    IN RoundDiv(clamped, 20)

\* json.loads on the texts the model writes as themes (letters, "1", ",", " "):
\* such a text is valid JSON only as a number, blanks around it allowed
IsJson(text) ==
    LET body == strip(text)
    IN body # <<>> /\ \A i \in 1..Len(body) : body[i] = "1"

\* retriever.py:169-176: themes read back from the metadata text
ParseThemes(text) ==
    IF IsJson(text) THEN [type |-> "int", val |-> <<strip(text)>>]
    ELSE [type |-> "list", val |-> <<text>>]

\* retriever.py:164-178: one candidate per metadata; a missing distance is 1.0
SearchItems(metadatas, distances) ==
    [i \in 1..Len(metadatas) |->
        LET d == IF i <= Len(distances) THEN distances[i] ELSE 10000
        IN [title |-> metadatas[i].title,
            score |-> cosine_score_from_distance(d),
            themes |-> ParseThemes(metadatas[i].themes)]]

\* ------------------------------------------------------------------ state
VARIABLES
    books,        \* the catalog file: a sequence of [title, summary, themes]
    user_query,   \* the argument of handle_query
    pc,           \* position of the running operation
    outcome,      \* "running", "returned" (clean return) or "raised" (exception escaped)
    printed,      \* what handle_query printed, in order
    calls,        \* the remote calls made: "embed", "query", "complete"
    titles,       \* candidate titles handed to _pick_from_titles
    content,      \* message.content of the completion reply
    chosen,       \* the title _pick_from_titles returned
    collection,   \* the vector-store collection: a sequence of index entries
    batch_size,   \* batch_size of the running embed_texts
    start,        \* loop variable of embed_texts: offset of the next batch
    embeddings,   \* vectors embed_texts has collected so far
    before,       \* history: the collection when the last build_index began
    built,        \* history: the catalog of the last successful build_index
    runs,         \* history: successful builds in a row with the same catalog
    after_first,  \* history: the collection after the first build of that row
    started_empty,\* history: the collection was empty when that row began
    k,            \* n_results of the running search_books
    hits,         \* the store's answer: positions of the nearest entries, distances
    items         \* what search_books returned

cli_vars == <<user_query, printed, calls, titles, content, chosen>>
index_vars == <<collection, batch_size, start, embeddings, before, built, runs, after_first,
                started_empty, k, hits, items>>
vars == <<books, pc, outcome, cli_vars, index_vars>>

\* the variables of the index, while only the command line is modelled
NoIndex ==
    /\ collection = <<>>
    /\ batch_size = 0
    /\ start = 0
    /\ embeddings = <<>>
    /\ before = <<>>
    /\ built = <<>>
    /\ runs = 0
    /\ after_first = <<>>
    /\ started_empty = FALSE
    /\ k = 0
    /\ hits = <<>>
    /\ items = <<>>

\* the variables of the command line, while only the index is modelled
NoCli ==
    /\ user_query = <<>>
    /\ printed = <<>>
    /\ calls = {}
    /\ titles = <<>>
    /\ content = <<>>
    /\ chosen = <<>>

\* ------------------------------------------------------------------ inputs
\* records the catalogs of the query model are made of: two titles that are
\* equal after strip().lower() ("Ab", "ab "), and one that is only similar ("abb")
QueryRecords ==
    { [title |-> <<"A", "b">>, summary |-> "S1", themes |-> <<>>],
      [title |-> <<"a", "b", " ">>, summary |-> "S2", themes |-> <<>>],
      [title |-> <<"a", "b", "b">>, summary |-> "S3", themes |-> <<>>] }

QueryCatalogs == UNION {[1..n -> QueryRecords] : n \in 0..MaxCatalog}

\* titles the index may return: of a catalog record ("abb"), of a record that is
\* no longer in the catalog ("bb"), and a missing title
IndexTitles == { <<"a", "b", "b">>, <<"b", "b">>, <<>> }

\* what search_books may hand back to handle_query: at most K candidates
QueryCandidates ==
    UNION {[1..n -> [title : IndexTitles, score : {500}, themes : {<<>>}]] : n \in 0..K}

\* completion replies of the query model
QueryReplies == { NoneContent, <<>>, <<"a", "b", "b">>, <<"B", "B">>, <<"a">> }

\* ------------------------------------------------------------------ handle_query
Line(tag, t, sm) == [tag |-> tag, title |-> t, summary |-> sm]

InitQuery ==
    /\ books \in QueryCatalogs
    /\ user_query \in Texts(Alphabet, MaxQueryLen)
    /\ pc = "client"
    /\ outcome = "running"
    /\ printed = <<>>
    /\ calls = {}
    /\ titles = <<>>
    /\ content = <<>>
    /\ chosen = <<>>
    /\ NoIndex

\* an exception leaves handle_query: nothing catches it
Raise ==
    /\ pc' = "done"
    /\ outcome' = "raised"

Return ==
    /\ pc' = "done"
    /\ outcome' = "returned"

\* cli.py:64, get_openai_client() finds the key and builds the client
GetClient ==
    /\ pc = "client"
    /\ pc' = "title"
    /\ UNCHANGED <<books, user_query, outcome, printed, calls, titles, content, chosen>>
    /\ UNCHANGED index_vars

\* cli.py:64, get_openai_client() raises (no key in .env)
GetClientFails ==
    /\ pc = "client"
    /\ Raise
    /\ UNCHANGED <<books, user_query, printed, calls, titles, content, chosen>>
    /\ UNCHANGED index_vars

\* cli.py:67-77, the title path
TitlePath ==
    /\ pc = "title"
    /\ LET m == match_title(books, user_query)
           fixed_title == IF m # <<>> THEN m ELSE user_query
           summary == get_summary_by_title(books, fixed_title)
       IN IF summary # ""
          THEN /\ printed' = <<Line("Title Match", fixed_title, ""),
                               Line("Summary", <<>>, summary)>>
               /\ Return
          ELSE /\ printed' = <<Line("No direct title match", <<>>, "")>>
               /\ pc' = "search"
               /\ UNCHANGED outcome
    /\ UNCHANGED <<books, user_query, calls, titles, content, chosen>>
    /\ UNCHANGED index_vars

\* retriever.py:132-142, search_books builds its clients and opens the collection
SearchClients ==
    /\ pc = "search"
    /\ pc' = "embed"
    /\ UNCHANGED <<books, user_query, outcome, printed, calls, titles, content, chosen>>
    /\ UNCHANGED index_vars

SearchClientsFail ==
    /\ pc = "search"
    /\ Raise
    /\ UNCHANGED <<books, user_query, printed, calls, titles, content, chosen>>
    /\ UNCHANGED index_vars

\* retriever.py:145-146, the query is embedded
EmbedQuery ==
    /\ pc = "embed"
    /\ calls' = calls \cup {"embed"}
    /\ pc' = "query"
    /\ UNCHANGED <<books, user_query, outcome, printed, titles, content, chosen>>
    /\ UNCHANGED index_vars

EmbedQueryFails ==
    /\ pc = "embed"
    /\ calls' = calls \cup {"embed"}
    /\ Raise
    /\ UNCHANGED <<books, user_query, printed, titles, content, chosen>>
    /\ UNCHANGED index_vars

\* retriever.py:149-180 and cli.py:78-82: the store answers, search_books
\* returns its candidates, handle_query keeps their titles
QueryStore ==
    /\ pc = "query"
    /\ calls' = calls \cup {"query"}
    /\ \E candidates \in QueryCandidates :
         LET ts == CandidateTitles(candidates)
         IN /\ titles' = ts
            /\ IF ts = <<>>
               THEN /\ printed' = Append(printed, Line("No results found", <<>>, ""))
                    /\ Return
               ELSE /\ pc' = "pick"
                    /\ UNCHANGED <<printed, outcome>>
    /\ UNCHANGED <<books, user_query, content, chosen>>
    /\ UNCHANGED index_vars

QueryStoreFails ==
    /\ pc = "query"
    /\ calls' = calls \cup {"query"}
    /\ Raise
    /\ UNCHANGED <<books, user_query, printed, titles, content, chosen>>
    /\ UNCHANGED index_vars

\* cli.py:85-96: the completion call, the choice and the summary lookup
PickAndShow ==
    /\ pc = "pick"
    /\ calls' = calls \cup {"complete"}
    /\ \E c \in QueryReplies :
         LET t == _pick_from_titles(titles, c)
             summary == get_summary_by_title(books, t)
         IN /\ content' = c
            /\ chosen' = t
            /\ printed' =
                 IF t = <<>>
                 THEN printed \o <<Line("Could not select a title", <<>>, "")>>
                 ELSE printed \o <<Line("Recommendation", t, "")>>
                      \o (IF summary # "" THEN <<Line("Summary", <<>>, summary)>>
                          ELSE <<Line("Summary not found", <<>>, "")>>)
    /\ Return
    /\ UNCHANGED <<books, user_query, titles>>
    /\ UNCHANGED index_vars

PickFails ==
    /\ pc = "pick"
    /\ calls' = calls \cup {"complete"}
    /\ Raise
    /\ UNCHANGED <<books, user_query, printed, titles, content, chosen>>
    /\ UNCHANGED index_vars

NextQuery ==
    \/ GetClient
    \/ GetClientFails
    \/ TitlePath
    \/ SearchClients
    \/ SearchClientsFail
    \/ EmbedQuery
    \/ EmbedQueryFails
    \/ QueryStore
    \/ QueryStoreFails
    \/ PickAndShow
    \/ PickFails

SpecQuery == InitQuery /\ [][NextQuery]_vars

\* ------------------------------------------------------------------ _pick_from_titles alone
\* candidate titles and reply alphabet of the selector model
PickTitles == { <<"a">>, <<"A", "b">>, <<"b">>, <<"b", "a">> }

ReplyAlphabet == {"a", "B", " "}

InitPick ==
    /\ titles \in UNION {[1..n -> PickTitles] : n \in 0..MaxTitles}
    /\ content \in Texts(ReplyAlphabet, MaxReplyLen) \cup {NoneContent}
    /\ pc = "pick"
    /\ outcome = "running"
    /\ books = <<>>
    /\ user_query = <<>>
    /\ printed = <<>>
    /\ calls = {}
    /\ chosen = <<>>
    /\ NoIndex

\* cli.py:19-20: an empty candidate list returns "" without a provider call
PickNothing ==
    /\ pc = "pick"
    /\ titles = <<>>
    /\ chosen' = _pick_from_titles(titles, content)
    /\ Return
    /\ UNCHANGED <<books, user_query, printed, calls, titles, content>>
    /\ UNCHANGED index_vars

\* cli.py:22-53: the completion call and the choice among the candidates
PickOne ==
    /\ pc = "pick"
    /\ titles # <<>>
    /\ calls' = calls \cup {"complete"}
    /\ chosen' = _pick_from_titles(titles, content)
    /\ printed' = <<Line("Recommendation", chosen', "")>>
    /\ Return
    /\ UNCHANGED <<books, user_query, titles, content>>
    /\ UNCHANGED index_vars

NextPick ==
    \/ PickNothing
    \/ PickOne

SpecPick == InitPick /\ [][NextPick]_vars

\* text x occurs in text y, case ignored: some slice of y equals x
OccursIn(x, y) ==
    \E i \in 1..(Len(y) + 1) : \E j \in 0..Len(y) :
        lower(SubSeq(y, i, j)) = lower(x)

\* positions of the candidates that occur in the reply
Named == {n \in 1..Len(titles) : OccursIn(titles[n], ReplyText(content))}

\* C2: for a non-empty candidate list, the title _pick_from_titles returns is a
\* member of the list: the first candidate, in list order, that occurs in the
\* reply (case ignored), and the first candidate when none occurs.
C2_ChosenIsCandidate ==
    (pc = "done" /\ titles # <<>>) =>
        /\ \E n \in 1..Len(titles) : chosen = titles[n]
        /\ Named # {} => chosen = titles[Min(Named)]
        /\ Named = {} => chosen = titles[1]

\* C2 witness: the reply names only a later candidate, in another case
C2_Witness ==
    /\ pc = "done"
    /\ Len(titles) >= 2
    /\ Named # {}
    /\ 1 \notin Named
    /\ ~Contains(ReplyText(content), chosen)
    /\ chosen = titles[Min(Named)]

\* ------------------------------------------------------------------ claims on handle_query
\* the comparison key of tools.py: strip().lower()
Norm(t) == lower(strip(t))

\* catalog positions whose normalized title equals the normalized query
ExactHits == {n \in 1..Len(books) : Norm(books[n].title) = Norm(user_query)}

\* C1: once handle_query has run its title step on a query whose normalized
\* text equals the normalized title of some catalog record, it has printed, on
\* the title path, a title equal (normalized) to the query and the summary of
\* the first such record, and it has made no embedding, store or completion call.
C1_ExactTitleWins ==
    (printed # <<>> /\ ExactHits # {}) =>
        /\ Len(printed) = 2
        /\ printed[1].tag = "Title Match"
        /\ Norm(printed[1].title) = Norm(user_query)
        /\ printed[2].tag = "Summary"
        /\ printed[2].summary = books[Min(ExactHits)].summary
        /\ calls = {}

C8_CleanReturn ==
    pc = "done" =>
        /\ outcome = "returned"
        /\ ExactHits # {} => \E i \in 1..Len(printed) : printed[i].tag = "Summary"

\* ------------------------------------------------------------------ build_index
\* records of the catalogs that are indexed
BuildRecords ==
    { [title |-> <<"A", "b">>, summary |-> "S1", themes |-> <<>>],
      [title |-> <<"a", "b", "b">>, summary |-> "S2", themes |-> << <<"s">>, <<"p">> >>] }

BuildCatalogs == UNION {[1..n -> BuildRecords] : n \in 0..MaxBooks}

InitBuild ==
    /\ books = <<>>
    /\ pc = "idle"
    /\ outcome = "none"
    /\ NoCli
    /\ collection = <<>>
    /\ batch_size = 0
    /\ start = 0
    /\ embeddings = <<>>
    /\ before = <<>>
    /\ built = <<>>
    /\ runs = 0
    /\ after_first = <<>>
    /\ started_empty = FALSE
    /\ k = 0
    /\ hits = <<>>
    /\ items = <<>>

build_history == <<built, runs, after_first, started_empty>>
search_vars == <<k, hits, items>>

\* retriever.py:89-116: clients, collection and catalog are there; embed_texts
\* begins.  batch_size is 64 in the source; the loop is the same for every
\* size, and the model runs it with small sizes so that a catalog of a few
\* records spans a first, a middle and a last batch.
BuildBegins ==
    /\ pc = "idle"
    /\ \E cat \in BuildCatalogs \ {<<>>} : books' = cat
    /\ \E b \in 1..MaxBatch : batch_size' = b
    /\ before' = collection
    /\ start' = 0
    /\ embeddings' = <<>>
    /\ pc' = "embedding"
    /\ outcome' = "running"
    /\ UNCHANGED <<cli_vars, collection, build_history, search_vars>>

\* retriever.py:89, get_openai_client() raises
BuildClientFails ==
    /\ pc = "idle"
    /\ before' = collection
    /\ outcome' = "raised"
    /\ UNCHANGED <<books, pc, cli_vars, collection, batch_size, start, embeddings,
                   build_history, search_vars>>

\* retriever.py:100-102, the catalog is empty: RuntimeError
BuildEmptyCatalog ==
    /\ pc = "idle"
    /\ books' = <<>>
    /\ before' = collection
    /\ outcome' = "raised"
    /\ UNCHANGED <<pc, cli_vars, collection, batch_size, start, embeddings,
                   build_history, search_vars>>

\* retriever.py:60-64, one batch is embedded
EmbedBatch ==
    /\ pc = "embedding"
    /\ start < Len(Documents(books))
    /\ embeddings' = Collect(embeddings,
                             EmbeddingsCreate(Batch(Documents(books), start, batch_size)))
    /\ start' = start + batch_size
    /\ UNCHANGED <<books, pc, outcome, cli_vars, collection, batch_size, before,
                   build_history, search_vars>>

\* a build that upserts the records embedded so far before it gives up
EmbedBatchFails_keepsPartial ==
    /\ pc = "embedding"
    /\ start < Len(Documents(books))
    /\ collection' = upsert(collection,
                            Entries(SubSeq(books, 1, Len(embeddings)), embeddings))
    /\ pc' = "idle"
    /\ outcome' = "raised"
    /\ UNCHANGED <<books, cli_vars, batch_size, start, embeddings, before,
                   build_history, search_vars>>

\* retriever.py:62, the provider fails on a batch: the exception leaves
\* embed_texts and build_index
EmbedBatchFails ==
    /\ pc = "embedding"
    /\ start < Len(Documents(books))
    /\ pc' = "idle"
    /\ outcome' = "raised"
    /\ UNCHANGED <<books, cli_vars, collection, batch_size, start, embeddings, before,
                   build_history, search_vars>>

\* retriever.py:65 and 118-119: embed_texts returns, the entries are upserted
UpsertAll ==
    /\ pc = "embedding"
    /\ start >= Len(Documents(books))
    /\ collection' = upsert(collection, Entries(books, embeddings))
    /\ LET same == runs >= 1 /\ built = books
       IN /\ runs' = IF same THEN (IF runs < MaxRuns THEN runs + 1 ELSE runs) ELSE 1
          /\ after_first' = IF same THEN after_first ELSE collection'
          /\ started_empty' = IF same THEN started_empty ELSE (collection = <<>>)
    /\ built' = books
    /\ pc' = "idle"
    /\ outcome' = "returned"
    /\ UNCHANGED <<books, cli_vars, batch_size, start, embeddings, before, search_vars>>

NextBuild ==
    \/ BuildBegins
    \/ BuildClientFails
    \/ BuildEmptyCatalog
    \/ EmbedBatch
    \/ EmbedBatchFails
    \/ UpsertAll

SpecBuild == InitBuild /\ [][NextBuild]_vars

\* ------------------------------------------------------------------ claims on build_index
\* positions of the collection's entries with the id of catalog ordinal i
WithId(coll, i) == {n \in 1..Len(coll) : coll[n].id = str(i)}

\* the id, document and metadata of every entry, in collection order
Contents(coll) ==
    [n \in 1..Len(coll) |->
        <<coll[n].id, coll[n].document, coll[n].metadata>>]

\* C5: after a successful build_index the collection has as many entries as
\* the catalog just built has records.
C5_CountEqualsCatalog ==
    (pc = "idle" /\ outcome = "returned") => Len(collection) = Len(books)

C9_FailedBuildChangesNothing ==
    /\ pc = "embedding" => collection = before
    /\ (pc = "idle" /\ outcome = "raised") => collection = before

\* C9 witness: the provider failed after at least one batch had been embedded,
\* on a catalog that differs from the one the collection was built from
C9_Witness ==
    /\ pc = "idle"
    /\ outcome = "raised"
    /\ embeddings # <<>>
    /\ collection # <<>>
    /\ books # built

\* C10: embed_texts holds, after every batch, the vectors of the first
\* min(start, n) texts in text order, so it returns one vector per text; and
\* after a successful build the entry with id i holds the summary, the title
\* and the vector of catalog record i.
C10_VectorsAligned ==
    /\ pc = "embedding" =>
         LET n == Len(Documents(books))
             m == IF start < n THEN start ELSE n
         IN embeddings = [i \in 1..m |-> Emb(Documents(books)[i])]
    /\ (pc = "idle" /\ outcome = "returned") =>
         \A i \in 1..Len(books) :
            \A p \in WithId(collection, i - 1) :
                /\ collection[p].document = books[i].summary
                /\ collection[p].metadata.title = books[i].title
                /\ collection[p].embedding = Emb(books[i].summary)

\* C10 witness: a catalog of three records embedded in batches of two was
\* indexed
C10_Witness ==
    /\ pc = "idle"
    /\ outcome = "returned"
    /\ Len(books) = 3
    /\ batch_size = 2
    /\ WithId(collection, 2) # {}

\* ------------------------------------------------------------------ search_books
\* records of the indexed catalogs: no theme, one, several, and a numeral
SearchRecords ==
    { [title |-> <<"A", "b">>, summary |-> "S1", themes |-> <<>>],
      [title |-> <<"a", "b", "b">>, summary |-> "S2", themes |-> << <<"s">> >>],
      [title |-> <<"b">>, summary |-> "S3", themes |-> << <<"s">>, <<"p">> >>],
      [title |-> <<"b", "b">>, summary |-> "S4", themes |-> << <<"1">> >>] }

SearchCatalogs == UNION {[1..n -> SearchRecords] : n \in 0..MaxBooks}

\* cosine distances the store reports, in 1/10000; the store computes them in
\* floating point, so values just outside [0, 2] occur
Distances == {-1, 0, 3333, 15000, 20001}

\* collection.query(n_results): the min(n_results, size) nearest entries,
\* nearest first
StoreAnswers(coll, n_results) ==
    LET m == IF n_results < Len(coll) THEN n_results ELSE Len(coll)
    IN {a \in [1..m -> [pos : 1..Len(coll), distance : Distances]] :
          /\ \A i, j \in 1..m : i < j => a[i].pos # a[j].pos
          /\ \A i, j \in 1..m : i < j => a[i].distance <= a[j].distance}

\* the collection is the one build_index made of the catalog (none was made
\* of an empty catalog)
InitSearch ==
    /\ books \in SearchCatalogs
    /\ collection = upsert(<<>>, Entries(books, EmbeddingsCreate(Documents(books))))
    /\ pc = "idle"
    /\ outcome = "none"
    /\ NoCli
    /\ batch_size = 0
    /\ start = 0
    /\ embeddings = <<>>
    /\ before = <<>>
    /\ built = books
    /\ runs = 0
    /\ after_first = <<>>
    /\ started_empty = FALSE
    /\ k = 0
    /\ hits = <<>>
    /\ items = <<>>

build_vars == <<collection, batch_size, start, embeddings, before, build_history>>

\* retriever.py:132-180, a search that succeeds.  The result's distance list
\* may be shorter than its metadata list: line 165 provides for it.
SearchBooks ==
    /\ pc = "idle"
    /\ \E n_results \in 1..MaxK :
         \E a \in StoreAnswers(collection, n_results) :
            \E nd \in 0..Len(a) :
               LET metadatas == [i \in 1..Len(a) |-> collection[a[i].pos].metadata]
                   distances == [i \in 1..nd |-> a[i].distance]
               IN /\ k' = n_results
                  /\ hits' = [pos |-> [i \in 1..Len(a) |-> a[i].pos],
                              distances |-> distances]
                  /\ items' = SearchItems(metadatas, distances)
    /\ pc' = "done"
    /\ outcome' = "returned"
    /\ UNCHANGED <<books, cli_vars, build_vars>>

\* retriever.py:132-153, a client, the embedding call or the store query raises
SearchFails ==
    /\ pc = "idle"
    /\ \E n_results \in 1..MaxK : k' = n_results
    /\ hits' = <<>>
    /\ items' = <<>>
    /\ pc' = "done"
    /\ outcome' = "raised"
    /\ UNCHANGED <<books, cli_vars, build_vars>>

NextSearch ==
    \/ SearchBooks
    \/ SearchFails

SpecSearch == InitSearch /\ [][NextSearch]_vars

\* C4: search_books returns at most k candidates, every score within [0, 1]
\* (0..1000 in thousandths), the scores non-increasing along the sequence.
C4_AtMostKDescending ==
    outcome = "returned" =>
        /\ Len(items) <= k
        /\ \A i \in 1..Len(items) : items[i].score >= 0 /\ items[i].score <= 1000
        /\ \A i, j \in 1..Len(items) : i < j => items[i].score >= items[j].score

\* C7: the themes search_books returns for an entry are the theme sequence of
\* the catalog record the entry was built from, element by element.
C7_ThemesRoundTrip ==
    outcome = "returned" =>
        \A j \in 1..Len(items) :
            items[j].themes = [type |-> "list", val |-> books[hits.pos[j]].themes]
====
